---------------------------- MODULE Spec2Model ----------------------------
(***************************************************************************)
(* A state-machine model of DecisionTree_Classification.ipynb: the cells   *)
(* of the notebook executed top to bottom in one kernel.  Each statement   *)
(* (or loop iteration) of a code cell is one action; an uncaught exception *)
(* ends the run (pc = "error"), as "Run All" does.                         *)
(*                                                                         *)
(* The library calls the notebook makes (pandas, RDKit, scikit-learn) are  *)
(* modelled by what they compute for the arguments the notebook passes.    *)
(* Real-valued quantities are kept exact: descriptors are scaled naturals, *)
(* scores and metrics are fractions [num, den], and entropy comparisons    *)
(* are done on exp(n * H), which is a rational number.  Console output     *)
(* (print, plots, the exported png) is not part of the state.              *)
(***************************************************************************)
EXTENDS Integers, Sequences, FiniteSets, TLC

VARIABLES
    pc,          \* the statement the kernel executes next
    err,         \* the exception that ended the run ("" while none)
    tmp,         \* the table read from B3DB_classification.tsv
    table,       \* the notebook's global `table`
    i,           \* position of the descriptor loop in table.index
    x, y,
    x_train, x_valid, x_test,
    y_train, y_valid, y_test,
    idx_train, idx_valid, idx_test,  \* rows of x each partition was taken from
    clf,         \* the model bound to `clf`
    clf3,        \* history: the model line 171 bound to `clf`
    clf_prev,    \* history: the model `clf` held before its last rebinding
    maxd,        \* loop variable of the sweep
    score_list,
    prediction,
    y_pred, y_true,
    cm,
    cells,       \* tn, fp, fn, tp after unpacking cm.ravel()
    precision, recall,
    warnings     \* warnings issued and not filtered

vars == <<pc, err, tmp, table, i, x, y, x_train, x_valid, x_test,
          y_train, y_valid, y_test, idx_train, idx_valid, idx_test,
          clf, clf3, clf_prev, maxd, score_list, prediction,
          y_pred, y_true, cm, cells, precision, recall, warnings>>

loadVars  == <<tmp, table, i>>
xyVars    == <<x, y>>
splitVars == <<x_train, x_valid, x_test, y_train, y_valid, y_test,
               idx_train, idx_valid, idx_test>>
fitVars   == <<clf, clf3, clf_prev, maxd, score_list, prediction>>
evalVars  == <<y_pred, y_true, cm, cells, precision, recall, warnings>>

-----------------------------------------------------------------------------
(* Bounds of the model *)

MaxRows == 3     \* rows of the input file
MaxN == 100      \* records handed to the splitter in SpecSplit
MaxPermN == 5    \* shuffles are enumerated exhaustively up to this length

-----------------------------------------------------------------------------
(* Sequence helpers *)

Range(s) == {s[k] : k \in DOMAIN s}

RECURSIVE SeqsUpTo(_, _)
SeqsUpTo(S, n) ==
    IF n = 0 THEN {<<>>}
    ELSE LET shorter == SeqsUpTo(S, n - 1)
         IN  shorter \cup {Append(s, e) : s \in {t \in shorter : Len(t) = n - 1}, e \in S}

Min(S) == CHOOSE m \in S : \A k \in S : m <= k

\* s[p[1]], s[p[2]], ... : numpy's s[p] for an index array p
Take(s, p) == [k \in 1..Len(p) |-> s[p[k]]]

None == "None"

-----------------------------------------------------------------------------
(* Dataset Loader: lines 63-70 *)

NA == "NaN"
Categories == {"BBB+", "BBB-", NA}

\* SMILES strings of the input file; the last one does not parse
SmilesPool == {"CC", "CCCC", "C(C"}

\* pd.read_table gives the rows a RangeIndex 0..n-1
ReadTable(rows) ==
    [k \in 1..Len(rows) |-> [idx |-> k - 1, SMILES |-> rows[k].SMILES, cat |-> rows[k].cat]]

\* table.dropna(subset="BBB+/BBB-"): rows keep their index labels
RECURSIVE DropNa(_)
DropNa(t) ==
    IF t = <<>> THEN <<>>
    ELSE IF Head(t).cat # NA THEN <<Head(t)>> \o DropNa(Tail(t))
         ELSE DropNa(Tail(t))

\* faulty variant: the index is left as dropna left it
ResetIndexNoop(t) == t

\* table.reset_index(drop=True, inplace=True)
ResetIndex(t) == [k \in 1..Len(t) |-> [t[k] EXCEPT !.idx = k - 1]]

\* table.loc[:,'BBB_class'] = 0; table.loc[table['BBB+/BBB-'] == 'BBB+', 'BBB_class'] = 1
BBBClass(r) == IF r.cat = "BBB+" THEN 1 ELSE 0

\* a row of `table`: desc maps the descriptor columns that exist to the row's values
AddClass(t) ==
    [k \in 1..Len(t) |->
        [idx |-> t[k].idx, SMILES |-> t[k].SMILES, cat |-> t[k].cat,
         BBB_class |-> BBBClass(t[k]), desc |-> <<>>]]

LoadTable(raw) == AddClass(ResetIndex(DropNa(raw)))

-----------------------------------------------------------------------------
(* Feature Extractor: lines 91-98 *)

NaN == -1   \* what pandas puts in the other rows of a column it creates

Columns == <<"MolWt", "TPSA", "nRotB", "HBD", "HBA", "LogP">>

\* Chem.MolFromSmiles: a molecule, or None for a string that does not parse
MolFromSmiles(s) == IF s \in {"CC", "CCCC"} THEN s ELSE None

\* The six RDKit descriptors of a molecule, scaled to naturals
\* (MolWt rounded, LogP in hundredths)
Descriptor(mol, col) ==
    CASE mol = "CC"   -> (CASE col = "MolWt" -> 30 [] col = "TPSA" -> 0
                            [] col = "nRotB" -> 0  [] col = "HBD" -> 0
                            [] col = "HBA" -> 0    [] col = "LogP" -> 103)
      [] mol = "CCCC" -> (CASE col = "MolWt" -> 58 [] col = "TPSA" -> 0
                            [] col = "nRotB" -> 1  [] col = "HBD" -> 0
                            [] col = "HBA" -> 0    [] col = "LogP" -> 181)

\* faulty variant: every assignment re-creates the column
SetDescriptorsOverwrite(t, label, mol) ==
    [j \in 1..Len(t) |->
        [t[j] EXCEPT !.desc =
            [c \in Range(Columns) |->
                IF t[j].idx = label THEN Descriptor(mol, c) ELSE NaN]]]

\* table.loc[i, col] = v for each of the six columns: a column that does not
\* exist yet is created holding NaN in every other row
SetDescriptors(t, label, mol) ==
    [j \in 1..Len(t) |->
        [t[j] EXCEPT !.desc =
            [c \in Range(Columns) |->
                IF t[j].idx = label THEN Descriptor(mol, c)
                ELSE IF c \in DOMAIN t[j].desc THEN t[j].desc[c] ELSE NaN]]]


-----------------------------------------------------------------------------
(* x and y: lines 123-126 *)

descriptors_selected == <<"MolWt", "TPSA", "HBD", "HBA", "LogP">>

\* table.loc[:, descriptors_selected].values
FeatureRows(t, cols) == [k \in 1..Len(t) |-> [c \in 1..Len(cols) |-> t[k].desc[cols[c]]]]

\* table.loc[:, ['BBB_class']].values
LabelRows(t) == [k \in 1..Len(t) |-> t[k].BBB_class]

-----------------------------------------------------------------------------
(* Dataset Splitter: lines 148-150, sklearn.model_selection.train_test_split *)

TestSize  == [num |-> 1, den |-> 5]    \* test_size = 0.2

\* faulty variant: the second split repeats the first one's test_size
ValidSizeFifth == [num |-> 1, den |-> 5]

ValidSize == [num |-> 1, den |-> 4]    \* test_size = 0.25

\* n_test = ceil(test_size * n_samples); n_train = n_samples - n_test.
\* For n up to 300 the double product 0.2 * n (0.25 * n) has the ceiling of
\* the exact n/5 (n/4), so the integer ceiling is what the code computes.
NTest(n, frac) == (n * frac.num + frac.den - 1) \div frac.den
NTrain(n, frac) == n - NTest(n, frac)

Rotation(n, k) == [j \in 1..n |-> ((j + k - 1) % n) + 1]

\* The orders RandomState(1).permutation(n) may produce: every one for short
\* arrays, a sample of them for long ones.
Shuffles(n) ==
    IF n <= MaxPermN THEN Permutations(1..n)
    ELSE {Rotation(n, k) : k \in {0, 1, n \div 2}}

\* faulty variant: the training slice starts one element early
SplitIdxOverlap(perm, n_test) ==
    [test  |-> SubSeq(perm, 1, n_test),
     train |-> SubSeq(perm, n_test, Len(perm))]

\* ShuffleSplit: ind_test = permutation[:n_test], ind_train = permutation[n_test:]
SplitIdx(perm, n_test) ==
    [test  |-> SubSeq(perm, 1, n_test),
     train |-> SubSeq(perm, n_test + 1, Len(perm))]

-----------------------------------------------------------------------------
(* Classifier Trainer: sklearn.tree.DecisionTreeClassifier(criterion='entropy', *)
(* max_depth=d), splitter 'best', no random_state.                             *)

Leaf(c) == [leaf |-> TRUE, cls |-> c]
Node(f, t, l, r) == [leaf |-> FALSE, f |-> f, thr2 |-> t, l |-> l, r |-> r]

Count(yy, S, c) == Cardinality({k \in S : yy[k] = c})

\* predict takes the argmax of the leaf's class counts: the lower class on a tie
Majority(yy, S) == IF Count(yy, S, 1) > Count(yy, S, 0) THEN 1 ELSE 0

\* a threshold is the midpoint of two consecutive distinct values; the model
\* keeps twice the threshold
Thresholds(xx, S, f) ==
    LET vals == {xx[k][f] : k \in S}
    IN  {a + Min({b \in vals : b > a}) : a \in {v \in vals : \E b \in vals : b > v}}

GoesLeft(v, f, t) == 2 * v[f] <= t

LeftOf(xx, S, f, t)  == {k \in S : GoesLeft(xx[k], f, t)}
RightOf(xx, S, f, t) == S \ LeftOf(xx, S, f, t)

Pow(a) == IF a = 0 THEN 1 ELSE LET p[k \in 0..a] == IF k = 0 THEN 1 ELSE a * p[k - 1] IN p[a]

\* exp(n * H(S)) for the entropy H of the class counts of S, as a fraction:
\* n^n / (c0^c0 * c1^c1).  Two splits with the same child class counts have
\* the same value here and the same double in scikit-learn.
ExpEntropy(yy, S) ==
    [num |-> Pow(Cardinality(S)),
     den |-> Pow(Count(yy, S, 0)) * Pow(Count(yy, S, 1))]

\* exp(n_left * H_left + n_right * H_right): the split that maximises the
\* information gain minimises it
SplitCost(xx, yy, S, f, t) ==
    LET l == ExpEntropy(yy, LeftOf(xx, S, f, t))
        r == ExpEntropy(yy, RightOf(xx, S, f, t))
    IN  [num |-> l.num * r.num, den |-> l.den * r.den]

FracLess(a, b) == a.num * b.den < b.num * a.den

Candidates(xx, S) ==
    UNION {{[f |-> f, thr2 |-> t] : t \in Thresholds(xx, S, f)} : f \in 1..Len(xx[Min(S)])}

\* The splits node_split can return.  It visits the features in a random
\* order and the thresholds of a feature in increasing order, and replaces
\* the best split only by a strictly better one: of the features that reach
\* the best gain, whichever is visited first wins, with its lowest threshold
\* that reaches it.
Winners(xx, yy, S) ==
    LET cands == Candidates(xx, S)
        cost == [c \in cands |-> SplitCost(xx, yy, S, c.f, c.thr2)]
        best == {c \in cands : \A d \in cands : ~FracLess(cost[d], cost[c])}
    IN  {c \in best : \A d \in best : d.f = c.f => c.thr2 <= d.thr2}

\* The trees fit can build on the samples S with `depth` levels left.  A node
\* is a leaf when the depth is used up, when it is pure, or when no feature
\* varies in it.
RECURSIVE FitSet(_, _, _, _)
FitSet(xx, yy, S, depth) ==
    IF depth = 0 \/ Count(yy, S, 0) = 0 \/ Count(yy, S, 1) = 0
    THEN {Leaf(Majority(yy, S))}
    ELSE LET ws == Winners(xx, yy, S)
         IN  IF ws = {}
             THEN {Leaf(Majority(yy, S))}
             ELSE UNION {
                    {Node(w.f, w.thr2, l, r) :
                        l \in FitSet(xx, yy, LeftOf(xx, S, w.f, w.thr2), depth - 1),
                        r \in FitSet(xx, yy, RightOf(xx, S, w.f, w.thr2), depth - 1)}
                    : w \in ws}

\* clf.fit(x_train, y_train) for a classifier built with max_depth = d
Fit(xx, yy, d) ==
    {[max_depth |-> d, tree |-> t] : t \in FitSet(xx, yy, DOMAIN xx, d)}

RECURSIVE PredictOne(_, _)
PredictOne(t, v) ==
    IF t.leaf THEN t.cls
    ELSE IF GoesLeft(v, t.f, t.thr2) THEN PredictOne(t.l, v) ELSE PredictOne(t.r, v)

\* clf.predict(X)
Predict(m, xx) == [k \in 1..Len(xx) |-> PredictOne(m.tree, xx[k])]

\* clf.score(X, y): the fraction of predictions equal to the labels
Score(m, xx, yy) ==
    [num |-> Cardinality({k \in 1..Len(xx) : PredictOne(m.tree, xx[k]) = yy[k]}),
     den |-> Len(xx)]


-----------------------------------------------------------------------------
(* Evaluator: sklearn.metrics confusion_matrix, precision_score, recall_score *)

RECURSIVE SortedSeq(_)
SortedSeq(S) == IF S = {} THEN <<>> ELSE <<Min(S)>> \o SortedSeq(S \ {Min(S)})

\* labels=None: the sorted labels that occur in y_true or y_pred
UniqueLabels(yt, yp) == SortedSeq(Range(yt) \cup Range(yp))

Pairs(yt, yp, a, b) == Cardinality({k \in 1..Len(yt) : yt[k] = a /\ yp[k] = b})

\* cm[a][b]: samples whose true label is labels[a] and predicted label labels[b]
ConfusionMatrix(yt, yp) ==
    LET labels == UniqueLabels(yt, yp)
    IN  [a \in 1..Len(labels) |->
            [b \in 1..Len(labels) |-> Pairs(yt, yp, labels[a], labels[b])]]

\* cm.ravel(): the rows one after the other
RECURSIVE Ravel(_)
Ravel(m) == IF m = <<>> THEN <<>> ELSE Head(m) \o Ravel(Tail(m))

\* _prf_divide with zero_division="warn": a zero denominator gives 0.0
PrfDivide(n, d) == IF d = 0 THEN [num |-> 0, den |-> 1] ELSE [num |-> n, den |-> d]

\* average='binary', pos_label=1
PrecisionScore(yt, yp) == PrfDivide(Pairs(yt, yp, 1, 1), Pairs(yt, yp, 0, 1) + Pairs(yt, yp, 1, 1))
RecallScore(yt, yp) == PrfDivide(Pairs(yt, yp, 1, 1), Pairs(yt, yp, 1, 0) + Pairs(yt, yp, 1, 1))

-----------------------------------------------------------------------------
(* Program constants *)

FirstFitDepth == 3     \* max_depth of line 170
SweepFirst == 1        \* range(1,25)
SweepStop == 25
BestDepth == 20        \* max_depth of line 250

-----------------------------------------------------------------------------
(* The notebook *)

RawRows == [SMILES : SmilesPool, cat : Categories]

Init ==
    /\ pc = "read"
    /\ err = ""
    /\ tmp = <<>> /\ table = <<>> /\ i = 0
    /\ x = <<>> /\ y = <<>>
    /\ x_train = <<>> /\ x_valid = <<>> /\ x_test = <<>>
    /\ y_train = <<>> /\ y_valid = <<>> /\ y_test = <<>>
    /\ idx_train = <<>> /\ idx_valid = <<>> /\ idx_test = <<>>
    /\ clf = None /\ clf3 = None /\ clf_prev = None
    /\ maxd = 0 /\ score_list = <<>> /\ prediction = <<>>
    /\ y_pred = <<>> /\ y_true = <<>> /\ cm = <<>>
    /\ cells = None /\ precision = None /\ recall = None
    /\ warnings = {}

Raise(e) == pc' = "error" /\ err' = e

\* lines 63-72
ReadData ==
    /\ pc = "read"
    /\ \E rows \in SeqsUpTo(RawRows, MaxRows) :
          /\ tmp' = ReadTable(rows)
          /\ table' = LoadTable(tmp')
    /\ i' = 1
    /\ pc' = IF table' = <<>> THEN "xy" ELSE "extract"
    /\ UNCHANGED <<err, xyVars, splitVars, fitVars, evalVars>>

\* lines 91-98, one iteration of the loop.  MolFromSmiles returns None for
\* a string it cannot parse, and ExactMolWt(None) raises before anything is
\* assigned to the row.
ExtractRow ==
    /\ pc = "extract"
    /\ i <= Len(table)
    /\ LET mol == MolFromSmiles(table[i].SMILES)
       IN  IF mol = None
           THEN /\ Raise("ArgumentError")
                /\ UNCHANGED <<table, i>>
           ELSE /\ table' = SetDescriptors(table, table[i].idx, mol)
                /\ i' = i + 1
                /\ pc' = IF i' > Len(table) THEN "xy" ELSE "extract"
                /\ err' = err
    /\ UNCHANGED <<tmp, xyVars, splitVars, fitVars, evalVars>>

HasColumns(t, cols) == t # <<>> /\ \A c \in Range(cols) : c \in DOMAIN t[1].desc

\* lines 123-126
MakeXY ==
    /\ pc = "xy"
    /\ IF HasColumns(table, descriptors_selected)
       THEN /\ x' = FeatureRows(table, descriptors_selected)
            /\ y' = LabelRows(table)
            /\ pc' = "split1"
            /\ err' = err
       ELSE /\ Raise("KeyError")
            /\ UNCHANGED xyVars
    /\ UNCHANGED <<loadVars, splitVars, fitVars, evalVars>>

\* line 148
Split1 ==
    /\ pc = "split1"
    /\ IF NTrain(Len(x), TestSize) = 0
       THEN /\ Raise("ValueError")
            /\ UNCHANGED splitVars
       ELSE \E perm \in Shuffles(Len(x)) :
              LET s == SplitIdx(perm, NTest(Len(x), TestSize))
              IN  /\ x_train' = Take(x, s.train)
                  /\ x_test' = Take(x, s.test)
                  /\ y_train' = Take(y, s.train)
                  /\ y_test' = Take(y, s.test)
                  /\ idx_train' = s.train
                  /\ idx_test' = s.test
                  /\ UNCHANGED <<x_valid, y_valid, idx_valid>>
                  /\ pc' = "split2"
                  /\ err' = err
    /\ UNCHANGED <<loadVars, xyVars, fitVars, evalVars>>

\* line 150
Split2 ==
    /\ pc = "split2"
    /\ IF NTrain(Len(x_train), ValidSize) = 0
       THEN /\ Raise("ValueError")
            /\ UNCHANGED splitVars
       ELSE \E perm \in Shuffles(Len(x_train)) :
              LET s == SplitIdx(perm, NTest(Len(x_train), ValidSize))
              IN  /\ x_train' = Take(x_train, s.train)
                  /\ x_valid' = Take(x_train, s.test)
                  /\ y_train' = Take(y_train, s.train)
                  /\ y_valid' = Take(y_train, s.test)
                  /\ idx_train' = Take(idx_train, s.train)
                  /\ idx_valid' = Take(idx_train, s.test)
                  /\ UNCHANGED <<x_test, y_test, idx_test>>
                  /\ pc' = "fit3"
                  /\ err' = err
    /\ UNCHANGED <<loadVars, xyVars, fitVars, evalVars>>

\* lines 170-173
Fit3 ==
    /\ pc = "fit3"
    /\ clf' \in Fit(x_train, y_train, FirstFitDepth)
    /\ clf3' = clf'
    /\ clf_prev' = clf
    /\ pc' = "sweep0"
    /\ UNCHANGED <<err, loadVars, xyVars, splitVars, maxd, score_list, prediction, evalVars>>

\* line 224
SweepInit ==
    /\ pc = "sweep0"
    /\ score_list' = <<>>
    /\ maxd' = SweepFirst - 1
    /\ pc' = "sweep"
    /\ UNCHANGED <<err, loadVars, xyVars, splitVars, clf, clf3, clf_prev, prediction, evalVars>>

\* faulty variant: the sweep scores on the test partition
TestScore(m) == Score(m, x_test, y_test)

\* clf.score(x_valid,y_valid) of line 228
ValidationScore(m) == Score(m, x_valid, y_valid)

\* lines 225-228, one iteration of the loop
SweepIter ==
    /\ pc = "sweep"
    /\ maxd' = maxd + 1
    /\ clf' \in Fit(x_train, y_train, maxd')
    /\ clf_prev' = clf
    /\ score_list' = Append(score_list, ValidationScore(clf'))
    /\ pc' = IF maxd' + 1 = SweepStop THEN "best" ELSE "sweep"
    /\ UNCHANGED <<err, loadVars, xyVars, splitVars, clf3, prediction, evalVars>>

\* lines 250-254
FitBest ==
    /\ pc = "best"
    /\ clf' \in Fit(x_train, y_train, BestDepth)
    /\ clf_prev' = clf
    /\ prediction' = Predict(clf', x_test)
    /\ pc' = "predict"
    /\ UNCHANGED <<err, loadVars, xyVars, splitVars, clf3, maxd, score_list, evalVars>>

\* lines 273-274
PredictTest ==
    /\ pc = "predict"
    /\ y_pred' = Predict(clf, x_test)
    /\ y_true' = y_test
    /\ pc' = "cm"
    /\ UNCHANGED <<err, loadVars, xyVars, splitVars, fitVars, cm, cells, precision, recall, warnings>>

\* lines 276-278
ComputeCM ==
    /\ pc = "cm"
    /\ cm' = ConfusionMatrix(y_true, y_pred)
    /\ pc' = "unpack"
    /\ UNCHANGED <<err, loadVars, xyVars, splitVars, fitVars, y_pred, y_true, cells, precision, recall, warnings>>

\* lines 308-309: unpacking needs exactly four values
Unpack ==
    /\ pc = "unpack"
    /\ LET flat == Ravel(cm)
       IN  IF Len(flat) = 4
           THEN /\ cells' = [tn |-> flat[1], fp |-> flat[2], fn |-> flat[3], tp |-> flat[4]]
                /\ pc' = "precision"
                /\ err' = err
           ELSE /\ Raise("ValueError")
                /\ UNCHANGED cells
    /\ UNCHANGED <<loadVars, xyVars, splitVars, fitVars, y_pred, y_true, cm, precision, recall, warnings>>

Undefined(yt, yp, a, b) == Pairs(yt, yp, a, b) + Pairs(yt, yp, 1, 1) = 0

\* line 311
ReportPrecision ==
    /\ pc = "precision"
    /\ precision' = PrecisionScore(y_true, y_pred)
    /\ warnings' = IF Undefined(y_true, y_pred, 0, 1)
                   THEN warnings \cup {"UndefinedMetricWarning: Precision"}
                   ELSE warnings
    /\ pc' = "recall"
    /\ UNCHANGED <<err, loadVars, xyVars, splitVars, fitVars, y_pred, y_true, cm, cells, recall>>

\* line 312
ReportRecall ==
    /\ pc = "recall"
    /\ recall' = RecallScore(y_true, y_pred)
    /\ warnings' = IF Undefined(y_true, y_pred, 1, 0)
                   THEN warnings \cup {"UndefinedMetricWarning: Recall"}
                   ELSE warnings
    /\ pc' = "done"
    /\ UNCHANGED <<err, loadVars, xyVars, splitVars, fitVars, y_pred, y_true, cm, cells, precision>>

Next ==
    \/ ReadData
    \/ ExtractRow
    \/ MakeXY
    \/ Split1
    \/ Split2
    \/ Fit3
    \/ SweepInit
    \/ SweepIter
    \/ FitBest
    \/ PredictTest
    \/ ComputeCM
    \/ Unpack
    \/ ReportPrecision
    \/ ReportRecall

Spec == Init /\ [][Next]_vars


-----------------------------------------------------------------------------
(* The splitter alone, on n records: lines 148-150 *)

Blank ==
    /\ err = ""
    /\ tmp = <<>> /\ table = <<>> /\ i = 0
    /\ clf = None /\ clf3 = None /\ clf_prev = None
    /\ maxd = 0 /\ score_list = <<>> /\ prediction = <<>>
    /\ y_pred = <<>> /\ y_true = <<>> /\ cm = <<>>
    /\ cells = None /\ precision = None /\ recall = None
    /\ warnings = {}

InitSplit ==
    /\ Blank
    /\ pc = "split1"
    /\ \E n \in 0..MaxN :
          /\ x = [k \in 1..n |-> <<k, 0, 0, 0, k>>]
          /\ y = [k \in 1..n |-> k % 2]
    /\ x_train = <<>> /\ x_valid = <<>> /\ x_test = <<>>
    /\ y_train = <<>> /\ y_valid = <<>> /\ y_test = <<>>
    /\ idx_train = <<>> /\ idx_valid = <<>> /\ idx_test = <<>>

NextSplit ==
    \/ Split1
    \/ Split2

SpecSplit == InitSplit /\ [][NextSplit]_vars

-----------------------------------------------------------------------------
(* The trainer and the sweep alone, on given partitions: lines 170-254 *)

\* Compounds that differ in MolWt and LogP only (hydrocarbons), with labels
Point(a, b, c) == [v |-> <<a, 0, 0, 0, b>>, c |-> c]

TreePool ==
    <<Point(0, 0, 0), Point(0, 1, 1), Point(0, 2, 0),
      Point(1, 1, 1), Point(2, 0, 0), Point(2, 2, 0)>>

TestPool  == {Point(1, 0, 0), Point(2, 1, 1)}

InitTree ==
    /\ Blank
    /\ pc = "fit3"
    /\ x = <<>> /\ y = <<>>
    /\ idx_train = <<>> /\ idx_valid = <<>> /\ idx_test = <<>>
    /\ \E S \in SUBSET (1..Len(TreePool)) \ {{}} :
          LET rows == Take(TreePool, SortedSeq(S))
          IN  /\ x_train = [k \in 1..Len(rows) |-> rows[k].v]
              /\ y_train = [k \in 1..Len(rows) |-> rows[k].c]
    \* the validation compound has the descriptors of a training compound
    /\ \E k \in {1, Len(x_train)} : x_valid = <<x_train[k]>> /\ y_valid = <<y_train[k]>>
    /\ \E p \in TestPool : x_test = <<p.v>> /\ y_test = <<p.c>>

NextTree ==
    \/ Fit3
    \/ SweepInit
    \/ SweepIter
    \/ FitBest

SpecTree == InitTree /\ [][NextTree]_vars


-----------------------------------------------------------------------------
(* Properties *)

Distinct(s) == Cardinality(Range(s)) = Len(s)

SplitsDone == pc \in {"fit3", "sweep0", "sweep", "best", "predict", "cm",
                      "unpack", "precision", "recall", "done"}

\* C1: when both splits have succeeded, the train, validation and test
\* partitions are pairwise disjoint, no record is repeated, their union is
\* every row of x, and each partition holds exactly the rows it was given.
Thm_C1 ==
    pc = "fit3" =>
        /\ Distinct(idx_train) /\ Distinct(idx_valid) /\ Distinct(idx_test)
        /\ Range(idx_train) \cap Range(idx_valid) = {}
        /\ Range(idx_train) \cap Range(idx_test) = {}
        /\ Range(idx_valid) \cap Range(idx_test) = {}
        /\ Range(idx_train) \cup Range(idx_valid) \cup Range(idx_test) = 1..Len(x)
        /\ x_train = Take(x, idx_train) /\ y_train = Take(y, idx_train)
        /\ x_valid = Take(x, idx_valid) /\ y_valid = Take(y, idx_valid)
        /\ x_test = Take(x, idx_test) /\ y_test = Take(y, idx_test)

\* both splits done on five records that were really shuffled
Wit_C1 ==
    /\ pc = "fit3"
    /\ Len(x) = 5
    /\ idx_test = <<3>> /\ idx_valid = <<1>> /\ idx_train = <<5, 2, 4>>

\* size lies within 1 of the share num/den of n, rounded down or up
FollowsShare(size, n, num, den) ==
    /\ size >= ((n * num) \div den) - 1
    /\ size <= ((n * num + den - 1) \div den) + 1

\* C10: after both splits the partition sizes follow the shares 60/20/20 of
\* the number of records, each within 1 of the share rounded to an integer;
\* for 100 records that is within 1 of 60, 20 and 20.
Thm_C10 ==
    pc = "fit3" =>
        /\ FollowsShare(Len(x_train), Len(x), 3, 5)
        /\ FollowsShare(Len(x_valid), Len(x), 1, 5)
        /\ FollowsShare(Len(x_test), Len(x), 1, 5)
        /\ Len(x_train) + Len(x_valid) + Len(x_test) = Len(x)

Wit_C10 ==
    /\ pc = "fit3"
    /\ Len(x) = 100
    /\ Len(x_train) = 60 /\ Len(x_valid) = 20 /\ Len(x_test) = 20

Evaluated(yt, yp) ==
    [tn |-> Pairs(yt, yp, 0, 0), fp |-> Pairs(yt, yp, 0, 1),
     fn |-> Pairs(yt, yp, 1, 0), tp |-> Pairs(yt, yp, 1, 1)]

UnpackRan ==
    \/ pc \in {"precision", "recall", "done"}
    \/ pc = "error" /\ cm # <<>>

\* C2: once line 308 has run on label sequences of length N > 0, tn, fp, fn
\* and tp hold the counts of (true, predicted) = (0,0), (0,1), (1,0), (1,1),
\* and they add up to N -- also when only one class occurs.
CE_C2 ==
    UnpackRan =>
        /\ pc # "error"
        /\ cells = Evaluated(y_true, y_pred)
        /\ cells.tn + cells.fp + cells.fn + cells.tp = Len(y_true)

\* a float that is NaN is kept as a fraction with denominator 0
IsUndefined(v) == v.den = 0
FracEq(v, n, d) == v.den # 0 /\ v.num * d = n * v.den

\* C3: the reported precision is TP/(TP+FP) when TP+FP > 0 and an undefined
\* value, never 0, when TP+FP = 0; the reported recall is TP/(TP+FN) when
\* TP+FN > 0 and an undefined value, never 0, when TP+FN = 0.
CE_C3 ==
    LET e == Evaluated(y_true, y_pred)
    IN  /\ pc \in {"recall", "done"} =>
              IF e.tp + e.fp = 0 THEN IsUndefined(precision)
              ELSE FracEq(precision, e.tp, e.tp + e.fp)
        /\ pc = "done" =>
              IF e.tp + e.fn = 0 THEN IsUndefined(recall)
              ELSE FracEq(recall, e.tp, e.tp + e.fn)

ExtractionOver == pc \notin {"read", "extract"}

\* C4: when feature extraction is over, no record whose SMILES fails to
\* parse is in the feature table (with or without descriptor values).
CE_C4 ==
    ExtractionOver =>
        \A k \in 1..Len(table) : MolFromSmiles(table[k].SMILES) # None

\* C5: after the loader has run, and through every later stage, no row of
\* the table has a missing permeability value, the rows are indexed 0, 1,
\* 2, ..., BBB_class is 1 exactly for the rows whose value is 'BBB+', and
\* the labels handed on (y and its partitions) are those BBB_class values.
Thm_C5 ==
    pc # "read" =>
        /\ \A k \in 1..Len(table) :
              /\ table[k].cat # NA
              /\ table[k].idx = k - 1
              /\ table[k].BBB_class = (IF table[k].cat = "BBB+" THEN 1 ELSE 0)
        /\ (pc \in {"split1", "split2"} \/ SplitsDone) =>
              /\ y = [k \in 1..Len(table) |-> IF table[k].cat = "BBB+" THEN 1 ELSE 0]
              /\ y_train = Take(y, idx_train)
              /\ y_valid = Take(y, idx_valid)
              /\ y_test = Take(y, idx_test)

\* a row was dropped, both classes remain, and later stages have run
Wit_C5 ==
    /\ pc = "split2"
    /\ Len(tmp) > Len(table)
    /\ tmp[1].cat = NA
    /\ Range(y) = {0, 1}

XYDone == pc \in {"split1", "split2"} \/ SplitsDone

\* the descriptors RDKit computes for the compound of a table row
Computed(r, cols) ==
    [c \in 1..Len(cols) |-> Descriptor(MolFromSmiles(r.SMILES), cols[c])]

\* C6 as stated: every feature vector handed to the splitter, trainer and
\* evaluator is the tuple of all six descriptors of its compound.
Orig_C6 ==
    XYDone =>
        /\ x = [k \in 1..Len(table) |-> Computed(table[k], Columns)]
        /\ x_train = Take(x, idx_train)
        /\ x_valid = Take(x, idx_valid)
        /\ x_test = Take(x, idx_test)

\* C6 amended: every feature vector handed to the splitter, trainer and
\* evaluator is the tuple of the five selected descriptors of its compound,
\* (MolWt, TPSA, HBD, HBA, LogP); the rotatable-bond count is written to the
\* table but is not a coordinate.
Thm_C6 ==
    XYDone =>
        /\ x = [k \in 1..Len(table) |-> Computed(table[k], <<"MolWt", "TPSA", "HBD", "HBA", "LogP">>)]
        /\ \A k \in 1..Len(table) :
              table[k].desc = [c \in Range(Columns) |-> Descriptor(MolFromSmiles(table[k].SMILES), c)]
        /\ x_train = Take(x, idx_train)
        /\ x_valid = Take(x, idx_valid)
        /\ x_test = Take(x, idx_test)

\* the whole notebook ran on two different compounds
Wit_C6 ==
    /\ pc = "done"
    /\ x_train # x_test
    /\ Len(x_train[1]) = 5

\* one iteration of the sweep, as C7 describes it
SweepStepOK ==
    pc = "sweep" =>
        /\ maxd' = maxd + 1
        /\ maxd' \in 1..24
        /\ clf'.max_depth = maxd'
        /\ clf' \in Fit(x_train, y_train, maxd')
        /\ score_list' = Append(score_list, Score(clf', x_valid, y_valid))
        /\ Len(score_list') = maxd'
        /\ UNCHANGED splitVars
        /\ pc' \in {"sweep", "best"}
        /\ pc' = "best" <=> Len(score_list') = 24

\* C7: each iteration of the sweep takes the next depth, 1, 2, ..., 24, fits
\* a model of that depth on the training set and appends its accuracy on the
\* validation set (not the test set), so the k-th entry belongs to depth k;
\* the loop ends after depth 24 with 24 entries; no partition changes.
Thm_C7 == [][SweepStepOK]_vars

\* the sweep is complete and its scores are not all the same
Wit_C7 ==
    /\ pc = "best"
    /\ Len(score_list) = 24
    /\ score_list[1] # score_list[24]
    /\ Len(x_train) >= 4

\* C8: two fits on the same training data with the same maximum depth
\* predict the same label for every test sample.  Line 171 and the third
\* iteration of the sweep both fit with max_depth = 3.
CE_C8 ==
    (pc = "sweep" /\ maxd = FirstFitDepth) =>
        /\ clf.max_depth = clf3.max_depth
        /\ Predict(clf, x_test) = Predict(clf3, x_test)

\* C9: in the sweep, the tree fitted with maximum depth D+1 has a training
\* accuracy that is not lower than that of the tree fitted with depth D.
CE_C9 ==
    (pc \in {"sweep", "best"} /\ maxd >= 2 /\ clf.max_depth = clf_prev.max_depth + 1) =>
        ~FracLess(Score(clf, x_train, y_train), Score(clf_prev, x_train, y_train))

=============================================================================
